---- MODULE Spec2Model ----
(***************************************************************************)
(* Model of src/src/06-objects-tasks.js: the css selector builder (class   *)
(* Selector and the facade cssSelectorBuilder).                            *)
(*                                                                         *)
(* Strings are sequences of one-character strings, so that concatenation   *)
(* and template literals are computed character by character.              *)
(* The heap maps object identities to Selector objects; an identity is in  *)
(* DOMAIN heap once `new Selector()` has produced it and a reference to it *)
(* has been returned to the caller.                                        *)
(***************************************************************************)
EXTENDS Integers, Sequences, FiniteSets, TLC

\* ---- bounds ----
MaxCalls == 3      \* calls that change an object (fragment calls that return, combine calls)

\* ---- inputs ----
Values      == {<<"t", "d">>}          \* the `value` arguments
Combinators == {<<"+">>, <<" ">>}      \* the `combinator` arguments

\* ---- Selector fields set by the constructor (lines 122-123) ----
errorMessageForRepeat ==
  "Element, id and pseudo-element should not occur more then one time inside the selector"
errorMessageForSequence ==
  "Selector parts should be arranged in the following order: element, id, class, attribute, pseudo-class, pseudo-element"
NoError == "none"

VARIABLES
  heap,      \* object identity -> [resultSelector, currentSelectorInQueue]
  appended,  \* history: per object, the <<rank, value>> of each fragment call that returned
  combined,  \* history: per object, the number of combine calls made on it
  last,      \* the most recent call: operation, receiver, arguments, error thrown, value returned
  obj,       \* the object the caller of Rectangle, getJSON and fromJSON holds: its own properties in order
  json,      \* the string the caller got from getJSON
  ret        \* the most recent call of Rectangle, getJSON, fromJSON or getArea: arguments and value returned

selectorVars == <<heap, appended, combined, last>>
objectVars == <<obj, json, ret>>
vars == <<heap, appended, combined, last, obj, json, ret>>

\* new Selector(): constructor, lines 119-124
Selector == [resultSelector |-> <<>>, currentSelectorInQueue |-> 0]

\* The record of a call; fields a call does not have are 0 or the empty string.
\* `next` is the rank of the fragment method called.
\* The value argument of a fragment call that returned is in `appended`.
\* `returned` is the object the call returned (0 if none), `result` the string.
CallRec(op, facade, this, next, selector1, combinator, selector2, thrown, result, returned) ==
  [op |-> op, facade |-> facade, this |-> this, next |-> next,
   selector1 |-> selector1, combinator |-> combinator, selector2 |-> selector2,
   thrown |-> thrown, result |-> result, returned |-> returned]

\* The record of a call of Rectangle, getJSON, fromJSON or getArea: the numbers
\* passed, the string passed or returned, the object returned, the number returned.
RetRec(op, args, text, object, number) ==
  [op |-> op, args |-> args, text |-> text, object |-> object, number |-> number]

\* variant: the order check is missing
checkSelectorsQueue_noOrder(this, nextSelectorInQueue) ==
  IF /\ this.currentSelectorInQueue = nextSelectorInQueue
     /\ (nextSelectorInQueue = 1 \/ nextSelectorInQueue = 2 \/ nextSelectorInQueue = 6)
    THEN errorMessageForRepeat
    ELSE NoError

\* variant: the two messages are exchanged
checkSelectorsQueue_messages(this, nextSelectorInQueue) ==
  IF this.currentSelectorInQueue > nextSelectorInQueue
    THEN errorMessageForRepeat
    ELSE IF /\ this.currentSelectorInQueue = nextSelectorInQueue
            /\ (nextSelectorInQueue = 1 \/ nextSelectorInQueue = 2 \/ nextSelectorInQueue = 6)
           THEN errorMessageForSequence
           ELSE NoError

\* variant: a second pseudo-element is let through
checkSelectorsQueue_pseudoTwice(this, nextSelectorInQueue) ==
  IF this.currentSelectorInQueue > nextSelectorInQueue
    THEN errorMessageForSequence
    ELSE IF /\ this.currentSelectorInQueue = nextSelectorInQueue
            /\ (nextSelectorInQueue = 1 \/ nextSelectorInQueue = 2)
           THEN errorMessageForRepeat
           ELSE NoError

\* variant: every category is taken as non-repeatable
checkSelectorsQueue_allOnce(this, nextSelectorInQueue) ==
  IF this.currentSelectorInQueue > nextSelectorInQueue
    THEN errorMessageForSequence
    ELSE IF this.currentSelectorInQueue = nextSelectorInQueue
           THEN errorMessageForRepeat
           ELSE NoError

\* checkSelectorsQueue(nextSelectorInQueue): the error thrown, or NoError
checkSelectorsQueue(this, nextSelectorInQueue) ==
  IF this.currentSelectorInQueue > nextSelectorInQueue
    THEN errorMessageForSequence
    ELSE IF /\ this.currentSelectorInQueue = nextSelectorInQueue
            /\ (nextSelectorInQueue = 1 \/ nextSelectorInQueue = 2 \/ nextSelectorInQueue = 6)
           THEN errorMessageForRepeat
           ELSE NoError

\* A method's result: the receiver's fields after the call and the error thrown.
\* A throw in checkSelectorsQueue leaves the method before either assignment.
Thrown(this, e) == [this |-> this, thrown |-> e]
Returned(this) == [this |-> this, thrown |-> NoError]

\* variant: the text is assigned before the check
element_early(this, value) ==
  LET e == checkSelectorsQueue(this, 1) IN
  IF e # NoError THEN Thrown([resultSelector |-> value,
                              currentSelectorInQueue |-> this.currentSelectorInQueue], e)
  ELSE Returned([resultSelector |-> value,
                 currentSelectorInQueue |-> 1])

element(this, value) ==
  LET e == checkSelectorsQueue(this, 1) IN
  IF e # NoError THEN Thrown(this, e)
  ELSE Returned([resultSelector |-> value,
                 currentSelectorInQueue |-> 1])

id(this, value) ==
  LET e == checkSelectorsQueue(this, 2) IN
  IF e # NoError THEN Thrown(this, e)
  ELSE Returned([resultSelector |-> this.resultSelector \o <<"#">> \o value,
                 currentSelectorInQueue |-> 2])

class(this, value) ==
  LET e == checkSelectorsQueue(this, 3) IN
  IF e # NoError THEN Thrown(this, e)
  ELSE Returned([resultSelector |-> this.resultSelector \o <<".">> \o value,
                 currentSelectorInQueue |-> 3])

\* variant: the closing bracket is missing
attr_unclosed(this, value) ==
  LET e == checkSelectorsQueue(this, 4) IN
  IF e # NoError THEN Thrown(this, e)
  ELSE Returned([resultSelector |-> this.resultSelector \o <<"[">> \o value,
                 currentSelectorInQueue |-> 4])

attr(this, value) ==
  LET e == checkSelectorsQueue(this, 4) IN
  IF e # NoError THEN Thrown(this, e)
  ELSE Returned([resultSelector |-> this.resultSelector \o <<"[">> \o value \o <<"]">>,
                 currentSelectorInQueue |-> 4])

pseudoClass(this, value) ==
  LET e == checkSelectorsQueue(this, 5) IN
  IF e # NoError THEN Thrown(this, e)
  ELSE Returned([resultSelector |-> this.resultSelector \o <<":">> \o value,
                 currentSelectorInQueue |-> 5])

pseudoElement(this, value) ==
  LET e == checkSelectorsQueue(this, 6) IN
  IF e # NoError THEN Thrown(this, e)
  ELSE Returned([resultSelector |-> this.resultSelector \o <<":", ":">> \o value,
                 currentSelectorInQueue |-> 6])

\* stringify(): the string returned
stringify(this) == this.resultSelector

\* variant: the receiver takes over the order of the right-hand side
combine_inherit(this, selector1, combinator, selector2) ==
  [resultSelector |->
     selector1.resultSelector \o <<" ">> \o combinator \o <<" ">> \o selector2.resultSelector,
   currentSelectorInQueue |-> selector2.currentSelectorInQueue]

\* variant: combine starts the receiver's order over
combine_reset(this, selector1, combinator, selector2) ==
  [resultSelector |->
     selector1.resultSelector \o <<" ">> \o combinator \o <<" ">> \o selector2.resultSelector,
   currentSelectorInQueue |-> 0]

\* variant: a combinator that is a space is not surrounded by spaces
combine_trim(this, selector1, combinator, selector2) ==
  [this EXCEPT !.resultSelector =
     IF combinator = <<" ">>
       THEN selector1.resultSelector \o combinator \o selector2.resultSelector
       ELSE selector1.resultSelector \o <<" ">> \o combinator \o <<" ">>
              \o selector2.resultSelector]

\* combine(selector1, combinator, selector2): the receiver's fields after the call
combine(this, selector1, combinator, selector2) ==
  [this EXCEPT !.resultSelector =
     stringify(selector1) \o <<" ">> \o combinator \o <<" ">> \o stringify(selector2)]

\* ---- Rectangle, getJSON, fromJSON ----
\* An object is the sequence of its own properties in creation order, each
\* <<key, type, value>> with type "number" or "function".
Numbers == {0, 10, 20}                 \* the numeric arguments

widthKey   == <<"w", "i", "d", "t", "h">>
heightKey  == <<"h", "e", "i", "g", "h", "t">>
getAreaKey == <<"g", "e", "t", "A", "r", "e", "a">>

NumberProp(key, value) == <<key, "number", value>>
FunctionProp(key) == <<key, "function", 0>>

\* this.<key>
Get(this, key) ==
  LET i == CHOOSE j \in 1..Len(this) : this[j][1] = key IN this[i][3]

HasOwn(this, key) == \E j \in 1..Len(this) : this[j][1] = key

\* this.<key> = value on an object that has the property
Put(this, key, value) ==
  [j \in 1..Len(this) |-> IF this[j][1] = key THEN NumberProp(key, value) ELSE this[j]]

\* new Rectangle(width, height)
Rectangle(width, height) ==
  <<NumberProp(widthKey, width), NumberProp(heightKey, height), FunctionProp(getAreaKey)>>

\* variant: the width is multiplied by itself
getArea_square(this) == Get(this, widthKey) * Get(this, widthKey)

\* this.getArea()
getArea(this) == Get(this, widthKey) * Get(this, heightKey)

\* The decimal digits of a natural number, and back
DigitChars == <<"0", "1", "2", "3", "4", "5", "6", "7", "8", "9">>

RECURSIVE NumberToString(_)
NumberToString(n) ==
  IF n < 10 THEN <<DigitChars[n + 1]>>
  ELSE NumberToString(n \div 10) \o <<DigitChars[(n % 10) + 1]>>

DigitValue(c) == (CHOOSE d \in 1..10 : DigitChars[d] = c) - 1

RECURSIVE StringToNumber(_)
StringToNumber(ds) ==
  IF Len(ds) = 1 THEN DigitValue(ds[1])
  ELSE StringToNumber(SubSeq(ds, 1, Len(ds) - 1)) * 10 + DigitValue(ds[Len(ds)])

\* JSON.stringify(obj): the properties in order, function-valued ones left out
RECURSIVE JoinProps(_)
JoinProps(props) ==
  IF props = <<>> THEN <<>>
  ELSE LET p == props[1]
           one == <<"\"">> \o p[1] \o <<"\"", ":">> \o NumberToString(p[3])
       IN IF Len(props) = 1 THEN one
          ELSE one \o <<",">> \o JoinProps(Tail(props))

JSONstringify(o) ==
  <<"{">> \o JoinProps(SelectSeq(o, LAMBDA p : p[2] # "function")) \o <<"}">>

\* JSON.parse(text) of an object of number-valued properties
RECURSIVE IndexOf(_, _, _)
IndexOf(s, stops, i) == IF s[i] \in stops THEN i ELSE IndexOf(s, stops, i + 1)

RECURSIVE ParseProps(_, _)
ParseProps(s, i) ==
  IF s[i] = "}" THEN <<>>
  ELSE LET keyEnd == IndexOf(s, {"\""}, i + 1)
           valueEnd == IndexOf(s, {",", "}"}, keyEnd + 2)
           key == SubSeq(s, i + 1, keyEnd - 1)
           value == StringToNumber(SubSeq(s, keyEnd + 2, valueEnd - 1))
       IN <<NumberProp(key, value)>>
            \o (IF s[valueEnd] = "," THEN ParseProps(s, valueEnd + 1) ELSE <<>>)

JSONparse(s) == ParseProps(s, 2)

\* Object.values(o)
ObjectValues(o) == [j \in 1..Len(o) |-> o[j][3]]

\* variant: the properties are written in alphabetical order of their keys
getJSON_sorted(o) ==
  LET props == SelectSeq(o, LAMBDA p : p[2] # "function") IN
  JSONstringify(SelectSeq(props, LAMBDA p : p[1] = heightKey)
                  \o SelectSeq(props, LAMBDA p : p[1] # heightKey))

\* getJSON(obj)
getJSON(o) == JSONstringify(o)

\* new proto.constructor(...values); Rectangle is the one constructor there is
RectanglePrototype == "Rectangle.prototype"
Construct(proto, values) ==
  CASE proto = RectanglePrototype -> Rectangle(values[1], values[2])

\* fromJSON(proto, json)
fromJSON(proto, s) == Construct(proto, ObjectValues(JSONparse(s)))

\* ---- calls ----
Ranks == 1..6

\* Number of calls so far that changed one of the objects 1..n
RECURSIVE CallsOn(_)
CallsOn(n) == IF n = 0 THEN 0 ELSE Len(appended[n]) + combined[n] + CallsOn(n - 1)

\* Number of calls so far that changed an object
Calls == CallsOn(Cardinality(DOMAIN heap))

\* The identity `new Selector()` yields
NewId == Cardinality(DOMAIN heap) + 1

Init ==
  /\ heap = <<>>
  /\ appended = <<>>
  /\ combined = <<>>
  /\ last = CallRec("none", FALSE, 0, 0, 0, <<>>, 0, NoError, <<>>, 0)
  /\ obj = <<>>
  /\ json = <<>>
  /\ ret = RetRec("none", <<>>, <<>>, <<>>, 0)

\* variant: a fragment method returns a changed copy and leaves the receiver
SelectorFragment_copy(b, op, next, value, r) ==
  /\ r.thrown = NoError => Calls < MaxCalls
  /\ IF r.thrown = NoError
       THEN /\ heap' = heap @@ (NewId :> r.this)
            /\ appended' = appended @@ (NewId :> Append(appended[b], <<next, value>>))
            /\ combined' = combined @@ (NewId :> combined[b])
       ELSE UNCHANGED <<heap, appended, combined>>
  /\ last' = CallRec(op, FALSE, b, next, 0, <<>>, 0, r.thrown, <<>>,
                     IF r.thrown = NoError THEN NewId ELSE 0)
  /\ UNCHANGED objectVars

\* variant: currentSelectorInQueue is one field shared by all objects
SelectorFragment_shared(b, op, next, value, r) ==
  /\ r.thrown = NoError => Calls < MaxCalls
  /\ heap' = [x \in DOMAIN heap |->
                IF x = b THEN r.this
                ELSE [heap[x] EXCEPT
                        !.currentSelectorInQueue = r.this.currentSelectorInQueue]]
  /\ appended' = IF r.thrown = NoError
                   THEN [appended EXCEPT ![b] = Append(@, <<next, value>>)]
                   ELSE appended
  /\ combined' = combined
  /\ last' = CallRec(op, FALSE, b, next, 0, <<>>, 0, r.thrown, <<>>,
                     IF r.thrown = NoError THEN b ELSE 0)
  /\ UNCHANGED objectVars

\* b.<fragment method>(value), with r the method's result on heap[b]
SelectorFragment(b, op, next, value, r) ==
  /\ r.thrown = NoError => Calls < MaxCalls
  /\ heap' = [heap EXCEPT ![b] = r.this]
  /\ appended' = IF r.thrown = NoError
                   THEN [appended EXCEPT ![b] = Append(@, <<next, value>>)]
                   ELSE appended
  /\ combined' = combined
  /\ last' = CallRec(op, FALSE, b, next, 0, <<>>, 0, r.thrown, <<>>,
                     IF r.thrown = NoError THEN b ELSE 0)
  /\ UNCHANGED objectVars

\* cssSelectorBuilder.<fragment method>(value): new Selector().<method>(value),
\* with r the method's result on the new object; the reference is returned
\* only if the method returns
FacadeFragment(op, next, value, r) ==
  /\ r.thrown = NoError => Calls < MaxCalls
  /\ IF r.thrown = NoError
       THEN /\ heap' = heap @@ (NewId :> r.this)
            /\ appended' = appended @@ (NewId :> << <<next, value>> >>)
            /\ combined' = combined @@ (NewId :> 0)
       ELSE UNCHANGED <<heap, appended, combined>>
  /\ last' = CallRec(op, TRUE, IF r.thrown = NoError THEN NewId ELSE 0,
                     next, 0, <<>>, 0, r.thrown, <<>>,
                     IF r.thrown = NoError THEN NewId ELSE 0)
  /\ UNCHANGED objectVars

Selector_element(b, value) ==
  SelectorFragment(b, "element", 1, value, element(heap[b], value))
Selector_id(b, value) ==
  SelectorFragment(b, "id", 2, value, id(heap[b], value))
Selector_class(b, value) ==
  SelectorFragment(b, "class", 3, value, class(heap[b], value))
Selector_attr(b, value) ==
  SelectorFragment(b, "attr", 4, value, attr(heap[b], value))
Selector_pseudoClass(b, value) ==
  SelectorFragment(b, "pseudoClass", 5, value, pseudoClass(heap[b], value))
Selector_pseudoElement(b, value) ==
  SelectorFragment(b, "pseudoElement", 6, value, pseudoElement(heap[b], value))

\* variant: combine checks the receiver's order as a fragment method does
Selector_combine_checked(b, s1, combinator, s2) ==
  LET e == checkSelectorsQueue(heap[b], 0)
      this == combine(heap[b], heap[s1], combinator, heap[s2]) IN
  /\ Calls < MaxCalls
  /\ heap' = IF e = NoError THEN [heap EXCEPT ![b] = this] ELSE heap
  /\ combined' = IF e = NoError THEN [combined EXCEPT ![b] = @ + 1] ELSE combined
  /\ appended' = appended
  /\ last' = CallRec("combine", FALSE, b, 0, s1, combinator, s2, e, <<>>,
                     IF e = NoError THEN b ELSE 0)
  /\ UNCHANGED objectVars

\* b.combine(s1, combinator, s2)
Selector_combine(b, s1, combinator, s2) ==
  LET this == combine(heap[b], heap[s1], combinator, heap[s2]) IN
  /\ Calls < MaxCalls
  /\ heap' = [heap EXCEPT ![b] = this]
  /\ combined' = [combined EXCEPT ![b] = @ + 1]
  /\ appended' = appended
  /\ last' = CallRec("combine", FALSE, b, 0, s1, combinator, s2, NoError, <<>>, b)
  /\ UNCHANGED objectVars

\* variant: stringify() hands the text over and empties it
Selector_stringify_consuming(b) ==
  /\ last' = CallRec("stringify", FALSE, b, 0, 0, <<>>, 0, NoError, heap[b].resultSelector, 0)
  /\ UNCHANGED objectVars
  /\ heap' = [heap EXCEPT ![b].resultSelector = <<>>]
  /\ UNCHANGED <<appended, combined>>

\* b.stringify()
Selector_stringify(b) ==
  /\ last' = CallRec("stringify", FALSE, b, 0, 0, <<>>, 0, NoError, stringify(heap[b]), 0)
  /\ UNCHANGED objectVars
  /\ UNCHANGED <<heap, appended, combined>>

cssSelectorBuilder_checkSelectorsQueue(next) ==
  /\ last' = CallRec("checkSelectorsQueue", TRUE, 0, 0, 0, <<>>, 0,
                     checkSelectorsQueue(Selector, next), <<>>, 0)
  /\ UNCHANGED objectVars
  /\ UNCHANGED <<heap, appended, combined>>

cssSelectorBuilder_element(value) ==
  FacadeFragment("element", 1, value, element(Selector, value))
cssSelectorBuilder_id(value) ==
  FacadeFragment("id", 2, value, id(Selector, value))
cssSelectorBuilder_class(value) ==
  FacadeFragment("class", 3, value, class(Selector, value))
cssSelectorBuilder_attr(value) ==
  FacadeFragment("attr", 4, value, attr(Selector, value))
cssSelectorBuilder_pseudoClass(value) ==
  FacadeFragment("pseudoClass", 5, value, pseudoClass(Selector, value))
cssSelectorBuilder_pseudoElement(value) ==
  FacadeFragment("pseudoElement", 6, value, pseudoElement(Selector, value))

\* variant: the facade combines into selector1 and returns it
cssSelectorBuilder_combine_inplace(s1, combinator, s2) ==
  /\ Calls < MaxCalls
  /\ heap' = [heap EXCEPT ![s1] = combine(heap[s1], heap[s1], combinator, heap[s2])]
  /\ appended' = appended
  /\ combined' = [combined EXCEPT ![s1] = @ + 1]
  /\ last' = CallRec("combine", TRUE, s1, 0, s1, combinator, s2, NoError, <<>>, s1)
  /\ UNCHANGED objectVars

cssSelectorBuilder_combine(s1, combinator, s2) ==
  LET this == combine(Selector, heap[s1], combinator, heap[s2]) IN
  /\ Calls < MaxCalls
  /\ heap' = heap @@ (NewId :> this)
  /\ appended' = appended @@ (NewId :> <<>>)
  /\ combined' = combined @@ (NewId :> 1)
  /\ last' = CallRec("combine", TRUE, NewId, 0, s1, combinator, s2, NoError, <<>>, NewId)
  /\ UNCHANGED objectVars

cssSelectorBuilder_stringify ==
  /\ last' = CallRec("stringify", TRUE, 0, 0, 0, <<>>, 0, NoError, stringify(Selector), 0)
  /\ UNCHANGED objectVars
  /\ UNCHANGED <<heap, appended, combined>>

Next ==
  \/ \E b \in DOMAIN heap, value \in Values : Selector_element(b, value)
  \/ \E b \in DOMAIN heap, value \in Values : Selector_id(b, value)
  \/ \E b \in DOMAIN heap, value \in Values : Selector_class(b, value)
  \/ \E b \in DOMAIN heap, value \in Values : Selector_attr(b, value)
  \/ \E b \in DOMAIN heap, value \in Values : Selector_pseudoClass(b, value)
  \/ \E b \in DOMAIN heap, value \in Values : Selector_pseudoElement(b, value)
  \/ \E b, s1, s2 \in DOMAIN heap, c \in Combinators : Selector_combine(b, s1, c, s2)
  \/ \E b \in DOMAIN heap : Selector_stringify(b)
  \/ \E next \in Ranks : cssSelectorBuilder_checkSelectorsQueue(next)
  \/ \E value \in Values : cssSelectorBuilder_element(value)
  \/ \E value \in Values : cssSelectorBuilder_id(value)
  \/ \E value \in Values : cssSelectorBuilder_class(value)
  \/ \E value \in Values : cssSelectorBuilder_attr(value)
  \/ \E value \in Values : cssSelectorBuilder_pseudoClass(value)
  \/ \E value \in Values : cssSelectorBuilder_pseudoElement(value)
  \/ \E s1, s2 \in DOMAIN heap, c \in Combinators : cssSelectorBuilder_combine(s1, c, s2)
  \/ cssSelectorBuilder_stringify

Spec == Init /\ [][Next]_vars

\* ---- calls of Rectangle, getJSON, fromJSON ----

\* obj = new Rectangle(width, height)
NewRectangle(width, height) ==
  /\ obj' = Rectangle(width, height)
  /\ ret' = RetRec("Rectangle", <<width, height>>, <<>>, obj', 0)
  /\ UNCHANGED json
  /\ UNCHANGED selectorVars

\* obj = { key1: value1, key2: value2 }, an object literal of the caller
NewObject(key1, value1, key2, value2) ==
  /\ key1 # key2
  /\ obj' = <<NumberProp(key1, value1), NumberProp(key2, value2)>>
  /\ ret' = RetRec("object", <<value1, value2>>, <<>>, obj', 0)
  /\ UNCHANGED json
  /\ UNCHANGED selectorVars

\* obj.<key> = value, an assignment of the caller to a property of obj
Assign(key, value) ==
  /\ obj # <<>>
  /\ obj' = Put(obj, key, value)
  /\ ret' = RetRec("assign", <<value>>, key, <<>>, 0)
  /\ UNCHANGED json
  /\ UNCHANGED selectorVars

\* obj.getArea()
Rectangle_getArea ==
  /\ obj # <<>> /\ HasOwn(obj, getAreaKey)
  /\ ret' = RetRec("getArea", <<>>, <<>>, <<>>, getArea(obj))
  /\ UNCHANGED <<obj, json>>
  /\ UNCHANGED selectorVars

\* json = getJSON(obj)
Call_getJSON ==
  /\ obj # <<>>
  /\ json' = getJSON(obj)
  /\ ret' = RetRec("getJSON", <<>>, json', <<>>, 0)
  /\ UNCHANGED obj
  /\ UNCHANGED selectorVars

\* fromJSON(Rectangle.prototype, json)
Call_fromJSON ==
  /\ json # <<>>
  /\ ret' = RetRec("fromJSON", <<>>, json, fromJSON(RectanglePrototype, json), 0)
  /\ UNCHANGED <<obj, json>>
  /\ UNCHANGED selectorVars

NextObjects ==
  \/ \E width, height \in Numbers : NewRectangle(width, height)
  \/ \E key1, key2 \in {widthKey, heightKey}, value1, value2 \in Numbers :
       NewObject(key1, value1, key2, value2)
  \/ \E key \in {widthKey, heightKey}, value \in Numbers : Assign(key, value)
  \/ Rectangle_getArea
  \/ Call_getJSON
  \/ Call_fromJSON

SpecObjects == Init /\ [][NextObjects]_vars

\* ======================= properties =======================

FragmentOps == {"element", "id", "class", "attr", "pseudoClass", "pseudoElement"}
NonRepeatable == {1, 2, 6}

\* The designated text of a fragment <<rank, value>>
Render(f) ==
  CASE f[1] = 1 -> f[2]
    [] f[1] = 2 -> <<"#">> \o f[2]
    [] f[1] = 3 -> <<".">> \o f[2]
    [] f[1] = 4 -> <<"[">> \o f[2] \o <<"]">>
    [] f[1] = 5 -> <<":">> \o f[2]
    [] f[1] = 6 -> <<":", ":">> \o f[2]

RECURSIVE ConcatFrags(_)
ConcatFrags(s) ==
  IF s = <<>> THEN <<>>
  ELSE ConcatFrags(SubSeq(s, 1, Len(s) - 1)) \o Render(s[Len(s)])

RanksOf(s) == [i \in 1..Len(s) |-> s[i][1]]

\* A sequence of ranks that is non-decreasing and repeats none of 1, 2, 6
ValidOrder(rs) ==
  \A i \in 1..(Len(rs) - 1) :
    /\ rs[i] <= rs[i + 1]
    /\ rs[i] = rs[i + 1] => rs[i] \notin NonRepeatable

NonDecreasing(rs) == \A i \in 1..(Len(rs) - 1) : rs[i] <= rs[i + 1]

Count(s, n) == Cardinality({i \in 1..Len(s) : s[i][1] = n})

\* The fragment calls that had returned on the receiver before the last call
\* (the last call is a fragment call on an existing object)
Before ==
  IF last.thrown = NoError
    THEN SubSeq(appended[last.this], 1, Len(appended[last.this]) - 1)
    ELSE appended[last.this]

IsFragmentCall(c) == c.op \in FragmentOps
IsMethodCall(c)   == c.facade = FALSE /\ c.this \in DOMAIN heap

\* C1: on a builder that only fragment calls were made on, every fragment call
\* that keeps the ranks non-decreasing and repeats none of the ranks 1, 2, 6
\* returns, and stringify() is the concatenation, in call order, of the
\* rendered fragments, with no other characters.
C1_Concatenation ==
  /\ \A b \in DOMAIN heap :
       combined[b] = 0 => stringify(heap[b]) = ConcatFrags(appended[b])
  /\ (IsFragmentCall(last) /\ last.facade) => last.thrown = NoError
  /\ (IsFragmentCall(last) /\ IsMethodCall(last) /\ combined[last.this] = 0
        /\ ValidOrder(Append(RanksOf(Before), last.next)))
       => last.thrown = NoError

\* a chain of three fragments such as id.class.class has been built
C1_Witness ==
  \E b \in DOMAIN heap :
    /\ combined[b] = 0
    /\ RanksOf(appended[b]) = <<2, 3, 3>>
    /\ last.this = b /\ last.op = "class" /\ last.thrown = NoError

\* C2 (as claimed): a fragment call of rank n on a builder whose last-rank is c
\* raises the sequence error if c > n, else raises the repeat error if c = n
\* and n is 1, 2 or 6, and otherwise returns, sets last-rank to n and appends
\* the fragment's rendered text to the text.
C2_ThreeOutcomes ==
  [][ (IsFragmentCall(last') /\ last'.facade = FALSE) =>
        LET b == last'.this
            c == heap[b].currentSelectorInQueue
            n == last'.next
        IN  IF c > n THEN last'.thrown = errorMessageForSequence
            ELSE IF c = n /\ n \in NonRepeatable THEN last'.thrown = errorMessageForRepeat
            ELSE /\ last'.thrown = NoError
                 /\ heap'[b].currentSelectorInQueue = n
                 /\ heap'[b].resultSelector =
                      heap[b].resultSelector \o Render(appended'[b][Len(appended'[b])])
    ]_vars

\* C3: the last-rank of a builder never decreases, under fragment calls that
\* return, fragment calls that raise, combine and stringify, and the ranks of
\* the fragments appended to a builder form a non-decreasing sequence.
C3_Ordering ==
  [][ /\ \A b \in DOMAIN heap :
           heap'[b].currentSelectorInQueue >= heap[b].currentSelectorInQueue
      /\ \A b \in DOMAIN heap' : NonDecreasing(RanksOf(appended'[b]))
    ]_vars

\* a fragment call raised the sequence error on a builder that has two
\* fragments and that combine was called on
C3_Witness ==
  /\ IsFragmentCall(last) /\ IsMethodCall(last)
  /\ last.thrown = errorMessageForSequence
  /\ Len(appended[last.this]) >= 2
  /\ combined[last.this] >= 1

\* C4: on one builder at most one element call, at most one id call and at
\* most one pseudoElement call ever returns, also after a caught error and
\* after combine was called on the builder.
C4_Uniqueness ==
  \A b \in DOMAIN heap : \A n \in NonRepeatable : Count(appended[b], n) <= 1

\* element was called again, and raised, on a builder on which element had
\* returned and combine was then called
C4_Witness ==
  /\ last.op = "element" /\ IsMethodCall(last)
  /\ last.thrown # NoError
  /\ Count(appended[last.this], 1) = 1
  /\ combined[last.this] >= 1

\* The last call is element, id or pseudoElement on a builder on which a call
\* of the same category had returned before
RepeatedCategory ==
  /\ IsFragmentCall(last) /\ IsMethodCall(last)
  /\ last.next \in NonRepeatable
  /\ Count(Before, last.next) >= 1

\* C5 (as claimed): element, id or pseudoElement called on a builder on which
\* a call of the same category has already returned raises the repeat error,
\* whatever other fragment calls were made in between.
C5_AlwaysRepeatError ==
  RepeatedCategory => last.thrown = errorMessageForRepeat

\* C5 (amended): such a call always raises; it raises the repeat error if the
\* last fragment appended to the builder is of that same category, and the
\* sequence error if a fragment of another category was appended in between.
C5_RepeatOrSequenceError ==
  RepeatedCategory =>
    last.thrown = IF Before[Len(Before)][1] = last.next
                    THEN errorMessageForRepeat
                    ELSE errorMessageForSequence

\* element was called a second time after an id call returned in between
C5_Witness ==
  /\ RepeatedCategory
  /\ last.op = "element"
  /\ RanksOf(Before) = <<1, 2>>
  /\ last.thrown = errorMessageForSequence

\* C6 (as claimed): an element(value) call that returns on a builder whose
\* text is not empty leaves the text in place and puts value right after it.
C6_ElementAppends ==
  [][ (last'.op = "element" /\ last'.facade = FALSE /\ last'.thrown = NoError
         /\ heap[last'.this].resultSelector # <<>>) =>
        LET b == last'.this
            value == appended'[b][Len(appended'[b])][2]
        IN heap'[b].resultSelector = heap[b].resultSelector \o value
    ]_vars

\* C7: after combine(A, c, B) the stringify() of the builder combine returns
\* is stringify(A), one space, c, one space, stringify(B), for every token c
\* and also when A or B are results of combine.
C7_Combine ==
  [][ last'.op = "combine" =>
        stringify(heap'[last'.this]) =
          stringify(heap[last'.selector1]) \o <<" ">> \o last'.combinator
            \o <<" ">> \o stringify(heap[last'.selector2])
    ]_vars

\* the facade combined, with a space as the token, two builders of which the
\* second is itself the result of combine
C7_Witness ==
  /\ last.op = "combine" /\ last.facade
  /\ last.combinator = <<" ">>
  /\ combined[last.selector2] >= 1
  /\ last.selector1 # last.selector2

\* C8 (as claimed): combine leaves the text and the last-rank of both of its
\* arguments as they were.
C8_ArgumentsUnchanged ==
  [][ last'.op = "combine" =>
        /\ heap'[last'.selector1] = heap[last'.selector1]
        /\ heap'[last'.selector2] = heap[last'.selector2]
    ]_vars

\* C8 (amended): combine changes no builder but its receiver: an argument that
\* is not the receiver keeps its text and last-rank, and the receiver of the
\* facade's combine is a new builder, so the facade's combine changes neither
\* argument, also when both are the same builder.
C8_OnlyReceiverChanged ==
  [][ last'.op = "combine" =>
        /\ \A x \in DOMAIN heap \ {last'.this} : heap'[x] = heap[x]
        /\ last'.facade => last'.this \notin DOMAIN heap
    ]_vars

\* the facade combined a builder with itself
C8_Witness ==
  /\ last.op = "combine" /\ last.facade
  /\ last.selector1 = last.selector2
  /\ heap[last.selector1].resultSelector # <<>>

\* The error a fragment call of rank n raises on a builder given only the
\* fragments appended to that builder so far
OwnOutcome(frags, n) ==
  LET c == IF frags = <<>> THEN 0 ELSE frags[Len(frags)][1] IN
  IF c > n THEN errorMessageForSequence
  ELSE IF c = n /\ n \in NonRepeatable THEN errorMessageForRepeat
  ELSE NoError

\* C9: a facade call starts from a new builder with empty text and last-rank
\* 0; a call changes no builder but its receiver; and what a fragment call on
\* a builder does is decided by the calls made on that builder alone.
C9_Isolation ==
  [][ /\ (IsFragmentCall(last') /\ last'.facade) =>
           /\ last'.thrown = NoError
           /\ last'.this \notin DOMAIN heap
           /\ heap'[last'.this] =
                [resultSelector |-> Render(appended'[last'.this][1]),
                 currentSelectorInQueue |-> last'.next]
      /\ (last'.op = "combine" /\ last'.facade) =>
           /\ last'.this \notin DOMAIN heap
           /\ heap'[last'.this].currentSelectorInQueue = 0
      /\ \A x \in DOMAIN heap \ {last'.this} : heap'[x] = heap[x]
      /\ (IsFragmentCall(last') /\ last'.facade = FALSE) =>
           last'.thrown = OwnOutcome(appended[last'.this], last'.next)
    ]_vars

\* two builders came from separate facade fragment calls and a fragment call
\* then returned on the first
C9_Witness ==
  /\ DOMAIN heap = {1, 2}
  /\ combined[1] = 0 /\ combined[2] = 0
  /\ IsFragmentCall(last) /\ last.facade = FALSE /\ last.this = 1
  /\ last.thrown = NoError

\* C10: stringify() returns the text and changes neither the text nor the
\* last-rank of any builder.
C10_StringifyPure ==
  [][ (last'.op = "stringify" /\ last'.facade = FALSE) =>
        /\ last'.thrown = NoError
        /\ last'.result = heap[last'.this].resultSelector
        /\ heap' = heap
    ]_vars

\* stringify() returned the text of a builder with two fragments
C10_Witness ==
  /\ last.op = "stringify" /\ last.facade = FALSE
  /\ Len(appended[last.this]) = 2
  /\ last.result = heap[last.this].resultSelector
  /\ Len(last.result) >= 3

\* C11: a class, attr or pseudoClass call made on a builder whose last
\* appended fragment is of that same category returns, however many calls of
\* that category came before it, and appends exactly the one rendered fragment
\* to the text.
C11_RepeatableCategories ==
  [][ (IsFragmentCall(last') /\ last'.facade = FALSE
         /\ last'.next \in {3, 4, 5}
         /\ appended[last'.this] # <<>>
         /\ appended[last'.this][Len(appended[last'.this])][1] = last'.next) =>
        LET b == last'.this IN
        /\ last'.thrown = NoError
        /\ Len(appended'[b]) = Len(appended[b]) + 1
        /\ heap'[b].resultSelector =
             heap[b].resultSelector \o Render(appended'[b][Len(appended'[b])])
    ]_vars

\* attr returned three times in a row on one builder
C11_Witness ==
  \E b \in DOMAIN heap :
    /\ RanksOf(appended[b]) = <<4, 4, 4>>
    /\ last.this = b /\ last.op = "attr" /\ last.thrown = NoError
    /\ heap[b].resultSelector = <<"[", "t", "d", "]", "[", "t", "d", "]", "[", "t", "d", "]">>

\* C12: only the fragment methods raise, and only the sequence or the repeat
\* error: stringify() and combine never raise, whatever the state of the
\* receiver and of the arguments.
C12_OnlyFragmentCallsRaise ==
  /\ last.thrown \in {NoError, errorMessageForSequence, errorMessageForRepeat}
  /\ last.op \in {"stringify", "combine"} => last.thrown = NoError
  /\ last.thrown # NoError => IsFragmentCall(last)

\* combine returned on a receiver at last-rank 6, on which every fragment
\* call raises, with the receiver also passed as an argument
C12_Witness ==
  /\ last.op = "combine" /\ IsMethodCall(last)
  /\ last.thrown = NoError
  /\ heap[last.this].currentSelectorInQueue = 6
  /\ last.selector2 = last.this

\* The keys of the number-valued properties of an object, in order
SerializedKeys(o) ==
  LET props == SelectSeq(o, LAMBDA p : p[2] = "number") IN
  [j \in 1..Len(props) |-> props[j][1]]

SerializedValues(o) ==
  LET props == SelectSeq(o, LAMBDA p : p[2] = "number") IN
  [j \in 1..Len(props) |-> props[j][3]]

\* The last call is fromJSON(Rectangle.prototype, getJSON(obj)) for the obj held
RoundTrip == ret.op = "fromJSON" /\ ret.text = getJSON(obj)

\* C13: fromJSON(Rectangle.prototype, getJSON(obj)) passes the values of obj to
\* the constructor in the order of the keys in the text, so width is the first
\* and height the second serialized value; when the keys of obj are in the
\* order (width, height) of the constructor's parameters, as for a Rectangle,
\* the instance has the width and the height of obj.
C13_RoundTrip ==
  RoundTrip =>
    /\ Get(ret.object, widthKey) = SerializedValues(obj)[1]
    /\ Get(ret.object, heightKey) = SerializedValues(obj)[2]
    /\ SerializedKeys(obj) = <<widthKey, heightKey>> =>
         /\ Get(ret.object, widthKey) = Get(obj, widthKey)
         /\ Get(ret.object, heightKey) = Get(obj, heightKey)

\* new Rectangle(10, 20) went through getJSON and fromJSON
C13_Witness ==
  /\ RoundTrip
  /\ obj = Rectangle(10, 20)
  /\ ret.text = <<"{", "\"", "w", "i", "d", "t", "h", "\"", ":", "1", "0", ",",
                  "\"", "h", "e", "i", "g", "h", "t", "\"", ":", "2", "0", "}">>
  /\ Get(ret.object, widthKey) = 10 /\ Get(ret.object, heightKey) = 20

\* C14: new Rectangle(w, h) has width w and height h, and getArea() returns
\* the product of the width and the height the object has when it is called.
C14_Rectangle ==
  /\ ret.op = "Rectangle" =>
       /\ Get(ret.object, widthKey) = ret.args[1]
       /\ Get(ret.object, heightKey) = ret.args[2]
  /\ ret.op = "getArea" =>
       ret.number = Get(obj, widthKey) * Get(obj, heightKey)

\* getArea() returned 200 on a rectangle of width 10 and height 20
C14_Witness ==
  /\ ret.op = "getArea" /\ ret.number = 200
  /\ Get(obj, widthKey) = 10 /\ Get(obj, heightKey) = 20

\* The rank of the last fragment call that returned on a builder, 0 if none
LastRank(frags) == IF frags = <<>> THEN 0 ELSE frags[Len(frags)][1]

\* C15: the builder the facade's combine returns has last-rank 0 and no
\* fragment of its own, whatever the two sides hold, so no fragment call made
\* on a builder without a fragment of its own raises; and the last-rank of
\* every builder is that of its own last fragment call, however many combine
\* calls were made on it.
C15_CombineRank ==
  /\ \A b \in DOMAIN heap :
       heap[b].currentSelectorInQueue = LastRank(appended[b])
  /\ (last.op = "combine" /\ last.facade) =>
       /\ heap[last.returned].currentSelectorInQueue = 0
       /\ appended[last.returned] = <<>>
  /\ (IsFragmentCall(last) /\ IsMethodCall(last) /\ last.thrown # NoError) =>
       appended[last.this] # <<>>

\* element returned on the builder combined from a builder at last-rank 6
C15_Witness ==
  /\ DOMAIN heap = {1, 2}
  /\ heap[1].currentSelectorInQueue = 6
  /\ combined[2] = 1 /\ combined[1] = 0
  /\ last.op = "element" /\ last.this = 2 /\ last.facade = FALSE
  /\ last.thrown = NoError
  /\ heap[2].currentSelectorInQueue = 1

\* C16: a fragment call that raises changes no builder: the text and the
\* last-rank of every object are as before the call, and so is every later
\* outcome, which depends on them alone.
C16_RaiseChangesNothing ==
  [][ (IsFragmentCall(last') /\ last'.thrown # NoError) =>
        /\ heap' = heap
        /\ appended' = appended
        /\ combined' = combined
        /\ last'.returned = 0
    ]_vars

\* element raised on a builder whose text is not the value passed
C16_Witness ==
  /\ last.op = "element" /\ IsMethodCall(last)
  /\ last.thrown = errorMessageForSequence
  /\ heap[last.this].resultSelector = <<"t", "d", "#", "t", "d">>

\* C17: on a builder on which pseudoElement has returned, every fragment call
\* raises: pseudoElement the repeat error, the other five the sequence error;
\* its last-rank stays 6, and a step that changes its text is a combine call
\* made on it.
C17_AfterPseudoElement ==
  [][ \A b \in DOMAIN heap :
        Count(appended[b], 6) >= 1 =>
          /\ (IsFragmentCall(last') /\ IsMethodCall(last') /\ last'.this = b) =>
               last'.thrown = IF last'.next = 6 THEN errorMessageForRepeat
                              ELSE errorMessageForSequence
          /\ heap'[b].currentSelectorInQueue = 6
          /\ appended'[b] = appended[b]
          /\ heap'[b].resultSelector # heap[b].resultSelector =>
               /\ last'.op = "combine" /\ IsMethodCall(last')
               /\ last'.this = b
    ]_vars

\* after pseudoElement and a combine on the builder, pseudoClass raised
C17_Witness ==
  /\ last.op = "pseudoClass" /\ IsMethodCall(last)
  /\ last.thrown = errorMessageForSequence
  /\ Count(appended[last.this], 6) = 1
  /\ combined[last.this] >= 1

\* C18: a fragment method that returns, returns its receiver: no object is
\* created, and the receiver holds the last-rank of the call and a text that
\* ends with the fragment of the call.
C18_ReturnsThis ==
  (IsFragmentCall(last) /\ IsMethodCall(last) /\ last.thrown = NoError) =>
    LET b == last.this
        frag == Render(appended[b][Len(appended[b])])
        text == heap[b].resultSelector IN
    /\ last.returned = b
    /\ heap[b].currentSelectorInQueue = last.next
    /\ LastRank(appended[b]) = last.next
    /\ Len(text) >= Len(frag)
    /\ SubSeq(text, Len(text) - Len(frag) + 1, Len(text)) = frag

\* a chain of three calls on the one builder: element, id, class
C18_Witness ==
  /\ DOMAIN heap = {1}
  /\ RanksOf(appended[1]) = <<1, 2, 3>>
  /\ last.op = "class" /\ last.returned = 1
  /\ heap[1].resultSelector = <<"t", "d", "#", "t", "d", ".", "t", "d">>
  /\ heap[1].currentSelectorInQueue = 3

====
